---- MODULE Spec2Model ----
(***************************************************************************)
(* A model of the vgif command line converter (video -> looping GIF).      *)
(*                                                                         *)
(* The program is one sequential asynchronous pipeline, run(): option      *)
(* validation, segment acquisition (cache, metadata with retry, transfer,  *)
(* extraction), speed preprocessing, crossfade synthesis or the encoding   *)
(* cascade, post-compression, and the temp-artifact sweep.  Every action   *)
(* below is one run-to-completion piece of JavaScript: the code between    *)
(* two suspension points (await, engine event, timer).                     *)
(*                                                                         *)
(* Times are integers (seconds); the speed factor is in tenths.  The       *)
(* outcome of every external collaborator (the encoding engine, the remote *)
(* source, the file system checks the code makes) is a nondeterministic    *)
(* choice.                                                                 *)
(***************************************************************************)
EXTENDS Integers, Sequences, FiniteSets, TLC

VARIABLES
    opts,          \* the parsed command line options (options object)
    pc,            \* position of run()
    outcome,       \* "running", "success", "exit1" (process.exit(1)), "uncaught"
    exitAt,        \* the place that ended the process
    tempDir,       \* "none", "exists", "removed": the mkdtemp directory
    tempFiles,     \* run(): let tempFiles = [] (tracked temp paths)
    fsTemp,        \* the files that exist inside the temp directory
    log,           \* every external effect performed so far, in order
    videoPath,     \* run(): let videoPath
    processedVideoPath, \* run(): let processedVideoPath
    lastEngineErr, \* the error raised by the last failed engine invocation
    rejectErr,     \* the error the conversion promise was rejected with
    loopLen,       \* length of crossfade_video.mp4 once the engine wrote it
    rt,            \* the activation record of withRetry
    cs,            \* the cache directory, the clock and the last cache call
    sel,           \* the format selection of downloadVideoSegment
    est,           \* the size estimate of run()
    win,           \* the source time the acquired file and the encoding cover
    uq             \* the output path of run() and the files around it

vars == <<opts, pc, outcome, exitAt, tempDir, tempFiles, fsTemp, log,
          videoPath, processedVideoPath, lastEngineErr, rejectErr, loopLen, rt, cs,
          sel, est, win, uq>>

runVars == <<opts, pc, outcome, exitAt, tempDir, tempFiles, fsTemp, log,
             videoPath, processedVideoPath, lastEngineErr, rejectErr, loopLen, cs,
             sel, est, win, uq>>

----------------------------------------------------------------------------
(* Bounds of the model.                                                    *)

MaxDuration == 4
MaxCrossfade == 4
MaxRetriesBound == 3

(* Program constants.                                                      *)

DEFAULT_RETRY_ATTEMPTS == 3
DEFAULT_RETRY_DELAY_MS == 1000
MinColors == 2
MaxColors == 256
NormalSpeed == 10          \* speed === 1.0, in tenths

(* parseFloat / parseInt of a non-numeric string.  Every comparison with   *)
(* NaN is false, which JsGt .. JsLe reproduce.                             *)
NaN == -999

IsNaN(x) == x = NaN
JsGt(a, b) == ~IsNaN(a) /\ ~IsNaN(b) /\ a > b
JsGe(a, b) == ~IsNaN(a) /\ ~IsNaN(b) /\ a >= b
JsLt(a, b) == ~IsNaN(a) /\ ~IsNaN(b) /\ a < b
JsLe(a, b) == ~IsNaN(a) /\ ~IsNaN(b) /\ a <= b

(* Error and value objects; two are the same object iff they are equal.    *)
None == [kind |-> "none", at |-> "none", n |-> 0]
EngineError(at) == [kind |-> "engine", at |-> at, n |-> 0]
NewError(msg) == [kind |-> "new", at |-> msg, n |-> 0]
FnError(call) == [kind |-> "fn", at |-> "fn", n |-> call]
SuccessValue == [kind |-> "value", at |-> "info", n |-> 0]

----------------------------------------------------------------------------
(* Retry Executor: withRetry(fn, maxRetries, delay, onRetry).              *)
(* rt.plan is the behaviour of fn: it throws on its first plan calls and   *)
(* returns SuccessValue afterwards.                                        *)

RetryIdle ==
    [pc |-> "idle", attempt |-> 0, maxRetries |-> 0, delay |-> 0,
     hasObserver |-> FALSE, plan |-> 0, calls |-> 0,
     observed |-> <<>>, sleeps |-> <<>>, pending |-> <<0, 1>>,
     lastError |-> None, result |-> None, raised |-> None]

RetryCall(maxRetries, delay, hasObserver, plan) ==
    [RetryIdle EXCEPT !.pc = "call", !.attempt = 1,
                      !.maxRetries = maxRetries, !.delay = delay,
                      !.hasObserver = hasObserver, !.plan = plan]

RECURSIVE Pow(_, _)
Pow(b, e) == IF e = 0 THEN 1 ELSE b * Pow(b, e - 1)

(* delay * Math.pow(2, attempt - 1): doubling instead of the 1.5 factor.   *)
RetryDelayDoubling(delay, attempt) == <<delay * Pow(2, attempt - 1), 1>>

(* delay * Math.pow(1.5, attempt - 1), as the exact fraction <<num, den>>. *)
RetryDelay(delay, attempt) == <<delay * Pow(3, attempt - 1), Pow(2, attempt - 1)>>

(* onRetry(err, attempt, maxRetries + 1)                                   *)
ObserverArgsMaxAttempts(err, attempt, maxRetries) == <<err, attempt, maxRetries + 1>>

(* onRetry(err, attempt, maxRetries)                                       *)
ObserverArgs(err, attempt, maxRetries) == <<err, attempt, maxRetries>>

(* throw new Error(...) wrapping the last error.                           *)
RaisedWrapped(lastError) == NewError("retries exhausted")

(* throw lastError                                                         *)
Raised(lastError) == lastError

ShouldRetryOffByOne(attempt, maxRetries) == attempt < maxRetries

ShouldRetry(attempt, maxRetries) == attempt <= maxRetries

(* One iteration of the for loop up to its suspension point: the call of   *)
(* fn, and for a failure the catch block up to the setTimeout.             *)
RetryAttempt ==
    /\ rt.pc = "call"
    /\ rt.attempt <= rt.maxRetries + 1
    /\ IF rt.calls >= rt.plan
       THEN rt' = [rt EXCEPT !.calls = @ + 1, !.pc = "returned",
                             !.result = SuccessValue]
       ELSE LET err == FnError(rt.calls + 1) IN
            IF ShouldRetry(rt.attempt, rt.maxRetries)
            THEN rt' = [rt EXCEPT
                    !.calls = @ + 1,
                    !.lastError = err,
                    !.observed = IF rt.hasObserver
                                 THEN Append(@, ObserverArgs(err, rt.attempt, rt.maxRetries))
                                 ELSE @,
                    !.pending = RetryDelay(rt.delay, rt.attempt),
                    !.pc = "sleep"]
            ELSE rt' = [rt EXCEPT
                    !.calls = @ + 1,
                    !.lastError = err,
                    !.attempt = @ + 1,
                    !.raised = IF rt.attempt + 1 <= rt.maxRetries + 1
                               THEN @ ELSE Raised(err),
                    !.pc = IF rt.attempt + 1 <= rt.maxRetries + 1
                           THEN "call" ELSE "thrown"]
    /\ UNCHANGED runVars

(* The timer of the backoff fires; the loop increments attempt.            *)
RetrySleepDone ==
    /\ rt.pc = "sleep"
    /\ rt' = [rt EXCEPT !.sleeps = Append(@, rt.pending),
                        !.attempt = @ + 1,
                        !.raised = IF rt.attempt + 1 <= rt.maxRetries + 1
                                   THEN @ ELSE Raised(rt.lastError),
                        !.pc = IF rt.attempt + 1 <= rt.maxRetries + 1
                               THEN "call" ELSE "thrown"]
    /\ UNCHANGED runVars

(* The temp directory's content: file name -> "data" or "empty".           *)
EmptyFs == [f \in {} |-> "data"]
Exists(fs, f) == f \in DOMAIN fs
Put(fs, f, c) == [g \in DOMAIN fs \cup {f} |-> IF g = f THEN c ELSE fs[g]]
Unlink(fs, f) == [g \in DOMAIN fs \ {f} |-> fs[g]]

IdleOpts ==
    [source |-> "none", cache |-> FALSE, duration |-> 0, crossfade |-> 0,
     speed |-> NormalSpeed, colors |-> MaxColors, lossy |-> 0]

----------------------------------------------------------------------------
(* The Format Selector of downloadVideoSegment.                            *)

(* The longest list of formats drawn for videoInfo.formats.                *)
MaxFormats == 3

(* A format of videoInfo.formats: width, hasVideo, hasAudio, and whether   *)
(* container or mimeType name mp4 or h264.                                 *)
VideoRenditions ==
    [width : {480, 720, 2560}, hasVideo : {TRUE}, hasAudio : BOOLEAN, mp4 : BOOLEAN]
AudioOnly == [width |-> 0, hasVideo |-> FALSE, hasAudio |-> TRUE, mp4 |-> TRUE]
Renditions == VideoRenditions \cup {AudioOnly}
(* What indexing past the end of an array, or a failed find, gives.        *)
Undefined == [width |-> -1, hasVideo |-> FALSE, hasAudio |-> FALSE, mp4 |-> FALSE]

Qualities == {"auto", "lowest", "low", "medium", "high", "highest"}

(* videoInfo.formats.filter(format => format.hasVideo)                     *)
VideoFormats(formats) == SelectSeq(formats, LAMBDA f : f.hasVideo)
Mp4Formats(formats) == SelectSeq(VideoFormats(formats), LAMBDA f : f.mp4)

(* mp4Formats.length > 0 ? mp4Formats : formats                            *)
compatibleFormats(formats) ==
    IF Len(Mp4Formats(formats)) > 0 THEN Mp4Formats(formats) ELSE VideoFormats(formats)

(* Insertion of f behind every element that is not wider: the sort is      *)
(* stable.                                                                 *)
RECURSIVE InsertByWidth(_, _)
InsertByWidth(sorted, f) ==
    IF sorted = <<>> THEN <<f>>
    ELSE IF Head(sorted).width <= f.width
         THEN <<Head(sorted)>> \o InsertByWidth(Tail(sorted), f)
         ELSE <<f>> \o sorted

(* compatibleFormats.sort((a, b) => a.width - b.width)                     *)
RECURSIVE SortByWidth(_)
SortByWidth(fs) ==
    IF fs = <<>> THEN <<>>
    ELSE InsertByWidth(SortByWidth(SubSeq(fs, 1, Len(fs) - 1)), fs[Len(fs)])

(* array[i], with JavaScript's 0-based index.                              *)
At(fs, i) == IF i + 1 \in 1..Len(fs) THEN fs[i + 1] ELSE Undefined
(* a || b for format objects.                                              *)
OrElse(a, b) == IF a = Undefined THEN b ELSE a

(* Twice Math.min(1920, parseInt(options.width) * 1.5), so that it is an   *)
(* integer; NaN when the width is.                                         *)
TargetWidthTimes2(width) ==
    IF IsNaN(width) THEN NaN ELSE IF 3 * width < 2 * 1920 THEN 3 * width ELSE 2 * 1920

(* compatibleFormats.find(f => f.width >= targetWidth)                     *)
RECURSIVE Find(_, _)
Find(fs, target2) ==
    IF fs = <<>> THEN Undefined
    ELSE IF JsGe(2 * Head(fs).width, target2) THEN Head(fs) ELSE Find(Tail(fs), target2)

(* find(...) || compatibleFormats[0]: the narrowest format as the fallback. *)
SelectAutoFallsBackToFirst(sorted, width) ==
    OrElse(Find(sorted, TargetWidthTimes2(width)), At(sorted, 0))

(* quality === 'auto'                                                      *)
SelectAuto(sorted, width) ==
    OrElse(Find(sorted, TargetWidthTimes2(width)), At(sorted, Len(sorted) - 1))

(* Math.ceil in place of Math.floor.                                       *)
TierIndexCeil(quality, formatCount) ==
    CASE quality = "lowest" -> 0
      [] quality = "low" -> (formatCount + 3) \div 4
      [] quality = "medium" -> (formatCount + 1) \div 2
      [] quality = "high" -> (3 * formatCount + 3) \div 4
      [] quality = "highest" -> formatCount - 1

(* Math.floor(formatCount * 0.25), * 0.5, * 0.75; 0; formatCount - 1.      *)
TierIndex(quality, formatCount) ==
    CASE quality = "lowest" -> 0
      [] quality = "low" -> formatCount \div 4
      [] quality = "medium" -> formatCount \div 2
      [] quality = "high" -> (3 * formatCount) \div 4
      [] quality = "highest" -> formatCount - 1

(* The switch over the quality tiers, with its || fallbacks.               *)
SelectTier(sorted, quality) ==
    LET picked == At(sorted, TierIndex(quality, Len(sorted))) IN
    CASE quality \in {"low", "medium"} -> OrElse(picked, At(sorted, 0))
      [] quality = "high" -> OrElse(picked, At(sorted, Len(sorted) - 1))
      [] OTHER -> picked

selectFormat(formats, quality, width) ==
    LET sorted == SortByWidth(compatibleFormats(formats)) IN
    IF quality = "auto" THEN SelectAuto(sorted, width) ELSE SelectTier(sorted, quality)

(* pc: "idle", "ready" (before the selection), "done"; formats:            *)
(* videoInfo.formats; quality, width, verbose: the arguments and options   *)
(* read; selected: selectedFormat; outcome: "transfer" once                *)
(* ytdl.downloadFromInfo was called, "threw" when the selection threw;     *)
(* error: the error thrown.                                                *)
SelIdle ==
    [pc |-> "idle", formats |-> <<>>, quality |-> "auto", width |-> 0, verbose |-> FALSE,
     selected |-> Undefined, outcome |-> "none", error |-> "none"]

(* The formats of the worked example, widths 120 to 1080.                  *)
ExampleFormats ==
    [i \in 1..5 |-> [width |-> <<120, 240, 480, 720, 1080>>[i], hasVideo |-> TRUE,
                     hasAudio |-> FALSE, mp4 |-> TRUE]]

FormatLists == UNION {[1..n -> Renditions] : n \in 0..MaxFormats} \cup {ExampleFormats}
(* parseInt(options.width): NaN for a width that is not a number.          *)
RequestedWidths == {NaN, 480, 2000}

----------------------------------------------------------------------------
(* The Size Estimator of run(). Products are compared exactly, as numbers  *)
(* written in base 10000, least significant digit first; the code's        *)
(* floating point arithmetic is taken to be exact.                         *)

BigBase == 10000

RECURSIVE BigTimesCarry(_, _, _)
BigTimesCarry(digits, k, carry) ==
    IF digits = <<>>
    THEN IF carry = 0 THEN <<>>
         ELSE <<carry % BigBase>> \o BigTimesCarry(<<>>, k, carry \div BigBase)
    ELSE LET v == Head(digits) * k + carry
         IN <<v % BigBase>> \o BigTimesCarry(Tail(digits), k, v \div BigBase)
BigTimes(big, k) == IF k = 0 THEN <<>> ELSE BigTimesCarry(big, k, 0)

RECURSIVE BigProd(_)
BigProd(factors) ==
    IF factors = <<>> THEN <<1>>
    ELSE BigTimes(BigProd(Tail(factors)), Head(factors))

RECURSIVE BigLeq(_, _)
BigLeq(a, b) ==
    IF Len(a) # Len(b) THEN Len(a) < Len(b)
    ELSE IF a = <<>> THEN TRUE
    ELSE IF a[Len(a)] # b[Len(b)] THEN a[Len(a)] < b[Len(b)]
    ELSE BigLeq(SubSeq(a, 1, Len(a) - 1), SubSeq(b, 1, Len(b) - 1))

(* estimatedSizeMB = fps * duration * width * width * 0.56 * 3 /           *)
(* (8 * 1024 * 1024), that is fps * duration * width^2 * 21 /              *)
(* (4096 * 1024 * 25); the budget is maxSize.                              *)
SizeNumerator(e) == <<e.fps, e.duration, e.width, e.width, 21>>
SizeDenominator(e) == <<4096, 1024, 25>>

(* estimatedSizeMB > maxSizeMB; a NaN on either side compares false.       *)
OverBudget(e) ==
    /\ ~IsNaN(e.duration) /\ ~IsNaN(e.maxSize)
    /\ ~BigLeq(BigProd(SizeNumerator(e)), BigProd(SizeDenominator(e) \o <<e.maxSize>>))

(* n <= width / reductionFactor, reductionFactor = sqrt(estimate/maxSize): *)
(* n^2 * estimate <= width^2 * maxSize.                                    *)
FitsWidth(n, e) ==
    BigLeq(BigProd(<<n, n>> \o SizeNumerator(e)),
           BigProd(<<e.width, e.width>> \o SizeDenominator(e) \o <<e.maxSize>>))

(* n <= fps / (reductionFactor * 0.7): 49 * n^2 * estimate <=              *)
(* 100 * fps^2 * maxSize.                                                  *)
FitsFps(n, e) ==
    BigLeq(BigProd(<<49, n, n>> \o SizeNumerator(e)),
           BigProd(<<100, e.fps, e.fps>> \o SizeDenominator(e) \o <<e.maxSize>>))

RECURSIVE FloorWidth(_, _, _)
FloorWidth(lo, hi, e) ==
    IF lo >= hi THEN lo
    ELSE LET mid == (lo + hi + 1) \div 2
         IN IF FitsWidth(mid, e) THEN FloorWidth(mid, hi, e) ELSE FloorWidth(lo, mid - 1, e)

RECURSIVE FloorFps(_, _, _)
FloorFps(lo, hi, e) ==
    IF lo >= hi THEN lo
    ELSE LET mid == (lo + hi + 1) \div 2
         IN IF FitsFps(mid, e) THEN FloorFps(mid, hi, e) ELSE FloorFps(lo, mid - 1, e)

(* Math.floor(parseInt(options.width) / reductionFactor)                   *)
NewWidth(e) == FloorWidth(0, e.width, e)

(* Math.floor(parseInt(options.fps) / (reductionFactor * 0.7)), without   *)
(* the floor of 10 frames per second.                                      *)
NewFpsNoMinimum(e) == FloorFps(0, 2 * e.fps, e)

(* Math.max(10, Math.floor(parseInt(options.fps) / (reductionFactor*0.7))) *)
NewFps(e) ==
    LET n == FloorFps(0, 2 * e.fps, e) IN IF n > 10 THEN n ELSE 10

(* pc: "idle", "ready", "done"; width, fps, duration, maxSize:             *)
(* parseInt of the options; adjusted: the branch that replaces             *)
(* options.width and options.fps was taken.                                *)
EstIdle ==
    [pc |-> "idle", width |-> 0, fps |-> 0, duration |-> 0, maxSize |-> 0,
     newWidth |-> 0, newFps |-> 0, adjusted |-> FALSE]

EstimateWidths == {320, 480, 1920}
EstimateFps == {10, 30, 60}
EstimateDurations == {NaN, 0, 1, 5, 30}
EstimateMaxSizes == {NaN, 0, 1, 5, 50}

----------------------------------------------------------------------------
(* Time windows. Times are in half seconds, so that the buffer of 0.5 s    *)
(* that run() adds to the segment request is 1. A file is described by the *)
(* interval of source time it covers; preprocessVideoSpeed is taken at the *)
(* normal speed, where it returns its input.                               *)

SegmentBuffer == 1
MaxStart == 4
MaxWindow == 4

WindowSources == {"url", "input"}
WindowStarts == 0..MaxStart
WindowDurations == 1..MaxWindow
WindowCrossfades(T) == 0..(T - 1)
SourceLengths == {MaxWindow, MaxStart + MaxWindow + MaxWindow + SegmentBuffer}

NoFile == [from |-> 0, to |-> 0]
WholeSource(len) == [from |-> 0, to |-> len]

(* ffmpeg(file).seekInput(s).duration(d): the output covers the file's     *)
(* times [s, s + d], cut at the end of the file, and starts at time 0.     *)
SeekDuration(file, s, d) ==
    [from |-> IF file.from + s < file.to THEN file.from + s ELSE file.to,
     to |-> IF file.from + s + d < file.to THEN file.from + s + d ELSE file.to]

(* run(): duration + (isCrossfadeEnabled() ? options.crossfade : 0) + 0.5  *)
SegmentDuration(T, X) == T + (IF X > 0 THEN X ELSE 0) + SegmentBuffer

(* downloadVideoSegment: both extractions seek to startTime in the whole    *)
(* asset; a cached segment was written by the same call.                   *)
downloadVideoSegment(len, startTime, duration) ==
    SeekDuration(WholeSource(len), startTime, duration)

(* Every tier of the cascade: setStartTime(options.start) and               *)
(* duration(options.duration) on processedVideoPath.                       *)
EncodeWindow(file, S, T) == SeekDuration(file, S, T)

(* processCrossfade: the three trims of the filter graph lie in the file's *)
(* times [0, T]; options.start is not used.                                *)
processCrossfadeWindow(file, T) == SeekDuration(file, 0, T)

WindowIdle == [pc |-> "idle", source |-> "input", start |-> 0, duration |-> 1,
               crossfade |-> 0, len |-> 0, file |-> NoFile, window |-> NoFile]

----------------------------------------------------------------------------
(* The output path. Paths are sequences of characters.                     *)

MaxCounter == 2

Gif == <<".", "g", "i", "f">>
Digits == <<"0", "1", "2", "3", "4", "5", "6", "7", "8", "9">>
CounterString(counter) == <<Digits[counter + 1]>>

LastIndexOf(s, c) ==
    LET I == {i \in 1..Len(s) : s[i] = c}
    IN IF I = {} THEN 0 ELSE CHOOSE i \in I : \A j \in I : j <= i

basename(p) == SubSeq(p, LastIndexOf(p, "/") + 1, Len(p))

(* path.extname: from the last dot of the basename; empty when there is no *)
(* dot or when the only dot is the first character.                        *)
extname(p) ==
    LET b == basename(p)
        i == LastIndexOf(b, ".")
    IN IF i <= 1 THEN <<>> ELSE SubSeq(b, i, Len(b))

(* basePath.slice(0, -n): slice(0, -0) is slice(0, 0), the empty string.   *)
SliceEnd(s, n) == IF n = 0 THEN <<>> ELSE SubSeq(s, 1, Len(s) - n)

(* `${baseWithoutExt}-${counter}${ext}`                                    *)
newPath(basePath, counter) ==
    SliceEnd(basePath, Len(extname(basePath))) \o <<"-">> \o CounterString(counter)
        \o extname(basePath)

(* do { newPath = ...; counter++ } while (fs.existsSync(newPath))          *)
RECURSIVE UniqueLoop(_, _, _)
UniqueLoop(files, basePath, counter) ==
    IF newPath(basePath, counter) \in files
    THEN UniqueLoop(files, basePath, counter + 1)
    ELSE newPath(basePath, counter)

getUniqueFilePath(files, basePath) ==
    IF basePath \notin files THEN basePath ELSE UniqueLoop(files, basePath, 1)

(* The base path with -k before its .gif ending.                           *)
Numbered(basePath, k) ==
    SubSeq(basePath, 1, Len(basePath) - Len(Gif)) \o <<"-">> \o CounterString(k) \o Gif

(* The paths run() hands to getUniqueFilePath all end in .gif.             *)
BasePaths == {<<"o">> \o Gif, <<"o", ".", "o">> \o Gif, <<"d", "/", "o">> \o Gif,
              Gif, <<"d", "/">> \o Gif}
NearbyPaths(basePath) ==
    {basePath} \cup {newPath(basePath, k) : k \in 1..MaxCounter}
               \cup {Numbered(basePath, k) : k \in 1..MaxCounter}

UniqueIdle == [pc |-> "idle", basePath |-> <<>>, existing |-> {}, outputPath |-> <<>>,
               written |-> {}]

----------------------------------------------------------------------------
(* The segment cache. Times are in days, sizes in megabytes: the code's    *)
(* milliseconds and bytes are these multiplied by a constant on both sides *)
(* of every comparison.                                                    *)

CACHE_MAX_AGE_DAYS == 7

(* Bounds of the cache model: the largest --cache-size drawn, and how many *)
(* times the clock advances.                                               *)
MaxCacheSize == 2
MaxTicks == 2

(* The clock value at which the cache model starts.                        *)
StartOfRun == CACHE_MAX_AGE_DAYS + 1

Contents == {"empty", "data", "data2"}
(* stats.size of a file with the given content.                            *)
FileSize(content) == IF content = "empty" THEN 0 ELSE IF content = "data" THEN 1 ELSE 2

(* What one acquisition asks for: the arguments of downloadVideoSegment    *)
(* and options.width.                                                      *)
Requests ==
    {r \in [id : {"v1"}, start : {0}, duration : {1, 2},
            quality : {"auto", "low"}, width : {320, 480}] :
        r.quality = "auto" <=> r.width = 480}
NoReq == [id |-> "none", start |-> 0, duration |-> 0, quality |-> "none", width |-> 0]

(* md5 of `${videoId}|${start}|${duration}`: the digest is taken to be     *)
(* collision free, so the key is the triple that was formatted.            *)
getCacheKey(videoId, start, duration) == <<videoId, start, duration>>

(* The key when the quality level is hashed in as well.                    *)
SegmentKeyPerQuality(r) == getCacheKey(r.id, r.start, <<r.duration, r.quality>>)

(* The key downloadVideoSegment looks up and stores under.                 *)
SegmentKey(r) == getCacheKey(r.id, r.start, r.duration)

(* path.join(cacheDir, 'segments', key + '.mp4') and                       *)
(* path.join(cacheDir, 'info', videoId + '.json').                         *)
SegmentPath(key) == <<"segments", key>>
InfoPath(videoId) == <<"info", <<videoId>>>>

NoEntry == [content |-> "none", mtime |-> 0]
EmptyDir == [n \in {} |-> NoEntry]

RECURSIVE TotalSize(_)
TotalSize(dir) ==
    IF DOMAIN dir = {} THEN 0
    ELSE LET n == CHOOSE x \in DOMAIN dir : TRUE
         IN FileSize(dir[n].content) + TotalSize(Unlink(dir, n))

(* fileAgeDays < CACHE_MAX_AGE_DAYS, and the size is not looked at.        *)
SegmentUsableAnySize(entry, now) == now - entry.mtime <= CACHE_MAX_AGE_DAYS

(* fileAgeDays <= CACHE_MAX_AGE_DAYS && stats.size > 0                     *)
SegmentUsable(entry, now) ==
    now - entry.mtime <= CACHE_MAX_AGE_DAYS /\ FileSize(entry.content) > 0

(* The copy a truncated write would leave in the cache.                    *)
CopiedEntryTruncated(content, now) == [content |-> "empty", mtime |-> now]

(* fs.copyFileSync(segmentPath, cachedSegmentPath): the new file.          *)
CopiedEntry(content, now) == [content |-> content, mtime |-> now]

(* (now - file.mtime) > maxAge                                             *)
Expired(dir, now) == {n \in DOMAIN dir : now - dir[n].mtime > CACHE_MAX_AGE_DAYS}

Orders(S) ==
    {q \in [1..Cardinality(S) -> S] : \A i, j \in 1..Cardinality(S) : i # j => q[i] # q[j]}

(* .sort((a, b) => b.mtime - a.mtime): newest first.                       *)
SortedNewestFirst(dir, S) ==
    {q \in Orders(S) : \A i, j \in 1..Len(q) : i < j => dir[q[i]].mtime >= dir[q[j]].mtime}

(* .sort((a, b) => a.mtime - b.mtime): every order the sort can produce,   *)
(* files of equal mtime staying in the order readdirSync listed them.      *)
SortedOldestFirst(dir, S) ==
    {q \in Orders(S) : \A i, j \in 1..Len(q) : i < j => dir[q[i]].mtime <= dir[q[j]].mtime}

RECURSIVE SumSizes(_, _)
SumSizes(dir, files) ==
    IF files = <<>> THEN 0
    ELSE FileSize(dir[Head(files)].content) + SumSizes(dir, Tail(files))

(* while (totalSize > maxSize && remainingFiles.length > 0) { shift,       *)
(* unlinkSync, totalSize -= size }                                         *)
RECURSIVE EvictLoop(_, _, _, _)
EvictLoop(dir, remainingFiles, totalSize, maxSize) ==
    IF totalSize > maxSize /\ remainingFiles # <<>>
    THEN LET oldestFile == Head(remainingFiles)
         IN EvictLoop(Unlink(dir, oldestFile), Tail(remainingFiles),
                      totalSize - FileSize(dir[oldestFile].content), maxSize)
    ELSE dir

(* cleanupCache, given the sorted list of the files that are not too old.  *)
(* Every unlinkSync is taken to succeed.                                   *)
cleanupCache(dir, now, cacheSize, remainingFiles) ==
    LET filesToRemove == Expired(dir, now)
        kept == [n \in DOMAIN dir \ filesToRemove |-> dir[n]]
    IN EvictLoop(kept, remainingFiles, SumSizes(dir, remainingFiles), cacheSize)

NoOp ==
    [name |-> "none", path |-> <<"none", <<>>>>, req |-> NoReq, fault |-> "none",
     result |-> "none", entry |-> NoEntry, content |-> "none", pre |-> EmptyDir]
NoSave == [live |-> FALSE, req |-> NoReq, content |-> "none", time |-> 0]

(* dir: the files of the cache directory; now: Date.now(); cacheSize:      *)
(* options.cacheSize; op: the last cache call and what it returned;        *)
(* saved: the last segment a saveCachedSegment stored and that no cleanup  *)
(* has evicted since; ticks: the clock advances so far.                    *)
CacheIdle ==
    [dir |-> EmptyDir, now |-> StartOfRun, cacheSize |-> 0, op |-> NoOp,
     saved |-> NoSave, ticks |-> 0]

InitAges == {0, CACHE_MAX_AGE_DAYS, CACHE_MAX_AGE_DAYS + 1}
InitEntries == [content : Contents, mtime : {StartOfRun - a : a \in InitAges}]
InitPaths == {SegmentPath(SegmentKey(r)) : r \in Requests} \cup {InfoPath("v1")}
(* An info file holds the serialised info: it is never empty.              *)
InitDirs ==
    {d \in UNION {[S -> InitEntries] : S \in SUBSET InitPaths} :
        InfoPath("v1") \in DOMAIN d => d[InfoPath("v1")].content = "data"}

(* The cache functions on their own, over every content of the cache       *)
(* directory, every --cache-size and every segment file to store.          *)
InitCache ==
    /\ opts = [IdleOpts EXCEPT !.source = "url", !.cache = TRUE]
    /\ pc = "cacheOnly"
    /\ outcome = "running"
    /\ exitAt = "none"
    /\ tempDir = "exists"
    /\ tempFiles = <<"video.mp4">>
    /\ \E c \in {"empty", "data2"} : fsTemp = Put(EmptyFs, "video.mp4", c)
    /\ log = <<>>
    /\ videoPath = "video.mp4"
    /\ processedVideoPath = "null"
    /\ lastEngineErr = None
    /\ rejectErr = None
    /\ loopLen = 0
    /\ rt = RetryIdle
    /\ sel = SelIdle
    /\ est = EstIdle
    /\ win = WindowIdle
    /\ uq = UniqueIdle
    /\ \E d \in InitDirs, m \in 0..MaxCacheSize :
          cs = [CacheIdle EXCEPT !.dir = d, !.cacheSize = m]

cacheFrame == <<opts, pc, outcome, exitAt, tempDir, tempFiles, fsTemp, log, videoPath,
                processedVideoPath, lastEngineErr, rejectErr, loopLen, rt, sel, est,
                win, uq>>

(* initializeCache: the directories exist, cleanupCache runs.              *)
CacheInitialize ==
    /\ pc = "cacheOnly"
    /\ IF ~opts.cache
       THEN cs' = [cs EXCEPT !.op = [NoOp EXCEPT !.name = "initializeCache",
                                                 !.result = "false"]]
       ELSE \E remainingFiles \in
                  SortedOldestFirst(cs.dir, DOMAIN cs.dir \ Expired(cs.dir, cs.now)) :
              LET dir2 == cleanupCache(cs.dir, cs.now, cs.cacheSize, remainingFiles)
              IN cs' = [cs EXCEPT
                     !.dir = dir2,
                     !.op = [NoOp EXCEPT !.name = "initializeCache", !.result = "true",
                                         !.pre = cs.dir],
                     !.saved = IF @.live /\ SegmentPath(SegmentKey(@.req)) \notin DOMAIN dir2
                               THEN NoSave ELSE @]
    /\ UNCHANGED cacheFrame

(* getCachedSegment. fault names the file system call that throws, if any. *)
CacheGetSegment ==
    /\ pc = "cacheOnly"
    /\ \E r \in Requests, fault \in {"none", "stat", "unlink"} :
          LET p == SegmentPath(SegmentKey(r))
              present == p \in DOMAIN cs.dir
              e == IF present THEN cs.dir[p] ELSE NoEntry
              op == [NoOp EXCEPT !.name = "getCachedSegment", !.path = p, !.req = r,
                                 !.entry = e]
          IN /\ fault # "none" => present
             /\ fault = "unlink" => ~SegmentUsable(e, cs.now)
             /\ IF ~opts.cache \/ ~present
                THEN cs' = [cs EXCEPT !.op = [op EXCEPT !.result = "null"]]
                ELSE IF fault = "stat"
                THEN cs' = [cs EXCEPT !.op = [op EXCEPT !.result = "threw", !.fault = fault]]
                ELSE IF SegmentUsable(e, cs.now)
                THEN cs' = [cs EXCEPT !.op = [op EXCEPT !.result = "path",
                                                        !.content = e.content]]
                ELSE cs' = [cs EXCEPT
                        !.dir = IF fault = "unlink" THEN @ ELSE Unlink(@, p),
                        !.op = [op EXCEPT !.result = "null", !.fault = fault]]
    /\ UNCHANGED cacheFrame

(* saveCachedSegment of the output file of the acquisition.                *)
CacheSaveSegment ==
    /\ pc = "cacheOnly"
    /\ \E r \in Requests, fault \in {"none", "copy"} :
          LET p == SegmentPath(SegmentKey(r))
              op == [NoOp EXCEPT !.name = "saveCachedSegment", !.path = p, !.req = r,
                                 !.fault = fault]
          IN IF ~opts.cache \/ fault = "copy" \/ ~Exists(fsTemp, videoPath)
             THEN cs' = [cs EXCEPT !.op = [op EXCEPT !.result = "segmentPath"]]
             ELSE cs' = [cs EXCEPT
                     !.dir = Put(@, p, CopiedEntry(fsTemp[videoPath], cs.now)),
                     !.op = [op EXCEPT !.result = "cachedSegmentPath"],
                     !.saved = [live |-> TRUE, req |-> r, content |-> fsTemp[videoPath],
                                time |-> cs.now]]
    /\ UNCHANGED cacheFrame

(* getCachedVideoInfo: an entry that is too old, or that JSON.parse cannot *)
(* read, is unlinked.                                                      *)
CacheGetInfo ==
    /\ pc = "cacheOnly"
    /\ \E fault \in {"none", "stat"} :
          LET p == InfoPath("v1")
              present == p \in DOMAIN cs.dir
              e == IF present THEN cs.dir[p] ELSE NoEntry
              op == [NoOp EXCEPT !.name = "getCachedVideoInfo", !.path = p, !.entry = e]
          IN /\ fault # "none" => present
             /\ IF ~opts.cache \/ ~present
                THEN cs' = [cs EXCEPT !.op = [op EXCEPT !.result = "null"]]
                ELSE IF fault = "stat"
                THEN cs' = [cs EXCEPT !.op = [op EXCEPT !.result = "threw", !.fault = fault]]
                ELSE IF cs.now - e.mtime <= CACHE_MAX_AGE_DAYS /\ e.content # "empty"
                THEN cs' = [cs EXCEPT !.op = [op EXCEPT !.result = "info",
                                                        !.content = e.content]]
                ELSE cs' = [cs EXCEPT !.dir = Unlink(@, p),
                                      !.op = [op EXCEPT !.result = "null"]]
    /\ UNCHANGED cacheFrame

(* saveCachedVideoInfo: writeFileSync of the serialised info.              *)
CacheSaveInfo ==
    /\ pc = "cacheOnly"
    /\ LET p == InfoPath("v1")
           op == [NoOp EXCEPT !.name = "saveCachedVideoInfo", !.path = p]
       IN IF ~opts.cache
          THEN cs' = [cs EXCEPT !.op = op]
          ELSE cs' = [cs EXCEPT !.dir = Put(@, p, [content |-> "data", mtime |-> cs.now]),
                                !.op = [op EXCEPT !.result = "written"]]
    /\ UNCHANGED cacheFrame

(* A week passes between two cache calls.                                  *)
CacheTick ==
    /\ pc = "cacheOnly"
    /\ cs.ticks < MaxTicks
    /\ cs' = [cs EXCEPT !.now = @ + CACHE_MAX_AGE_DAYS, !.ticks = @ + 1, !.op = NoOp]
    /\ UNCHANGED cacheFrame

NextCache ==
    \/ CacheInitialize \/ CacheGetSegment \/ CacheSaveSegment
    \/ CacheGetInfo \/ CacheSaveInfo \/ CacheTick

SpecCache == InitCache /\ [][NextCache]_vars

----------------------------------------------------------------------------
(* A function of the program on its own: every variable of run() idle.    *)
HarnessInit(position) ==
    /\ opts = IdleOpts
    /\ pc = position
    /\ outcome = "running"
    /\ exitAt = "none"
    /\ tempDir = "none"
    /\ tempFiles = <<>>
    /\ fsTemp = EmptyFs
    /\ log = <<>>
    /\ videoPath = "null"
    /\ processedVideoPath = "null"
    /\ lastEngineErr = None
    /\ rejectErr = None
    /\ loopLen = 0
    /\ rt = RetryIdle
    /\ cs = CacheIdle

harnessFrame == <<opts, pc, outcome, exitAt, tempDir, tempFiles, fsTemp, log, videoPath,
                  processedVideoPath, lastEngineErr, rejectErr, loopLen, rt, cs>>

(* The format selection, over every short list of formats, every quality   *)
(* and requested width. options.verbose changes what happens only when no  *)
(* format is selected.                                                     *)
InitSelect ==
    /\ HarnessInit("selectOnly")
    /\ est = EstIdle
    /\ win = WindowIdle
    /\ uq = UniqueIdle
    /\ \E fl \in FormatLists, q \in Qualities, w \in RequestedWidths, v \in BOOLEAN :
          /\ v => VideoFormats(fl) = <<>>
          /\ sel = [SelIdle EXCEPT !.pc = "ready", !.formats = fl, !.quality = q,
                                   !.width = w, !.verbose = v]

(* downloadVideoSegment from the filter of the formats to the call of      *)
(* ytdl.downloadFromInfo. With nothing selected, the verbose log line      *)
(* throws a TypeError on selectedFormat.qualityLabel; otherwise            *)
(* downloadFromInfo is called with format undefined.                       *)
SelectFormat ==
    /\ pc = "selectOnly"
    /\ sel.pc = "ready"
    /\ LET selectedFormat == selectFormat(sel.formats, sel.quality, sel.width)
           throws == selectedFormat = Undefined /\ sel.verbose
       IN sel' = [sel EXCEPT !.pc = "done", !.selected = selectedFormat,
                             !.outcome = IF throws THEN "threw" ELSE "transfer",
                             !.error = IF throws THEN "TypeError" ELSE "none"]
    /\ UNCHANGED <<harnessFrame, est, win, uq>>

NextSelect == SelectFormat

SpecSelect == InitSelect /\ [][NextSelect]_vars

(* The size estimate, over the option values drawn.                        *)
InitEstimate ==
    /\ HarnessInit("estimateOnly")
    /\ sel = SelIdle
    /\ win = WindowIdle
    /\ uq = UniqueIdle
    /\ \E w \in EstimateWidths, f \in EstimateFps, d \in EstimateDurations,
          m \in EstimateMaxSizes :
          est = [EstIdle EXCEPT !.pc = "ready", !.width = w, !.fps = f,
                                !.duration = d, !.maxSize = m]

(* run(): the estimate and, over budget, the replacement of options.width  *)
(* and options.fps.                                                        *)
EstimateSize ==
    /\ pc = "estimateOnly"
    /\ est.pc = "ready"
    /\ est' = [est EXCEPT !.pc = "done",
                          !.adjusted = OverBudget(est),
                          !.newWidth = IF OverBudget(est) THEN NewWidth(est) ELSE est.width,
                          !.newFps = IF OverBudget(est) THEN NewFps(est) ELSE est.fps]
    /\ UNCHANGED <<harnessFrame, sel, win, uq>>

NextEstimate == EstimateSize

SpecEstimate == InitEstimate /\ [][NextEstimate]_vars

(* The time windows of one request: acquisition, then the encoding.        *)
InitWindow ==
    /\ HarnessInit("windowOnly")
    /\ sel = SelIdle
    /\ est = EstIdle
    /\ uq = UniqueIdle
    /\ \E src \in WindowSources, S \in WindowStarts, T \in WindowDurations,
          len \in SourceLengths :
          \E X \in WindowCrossfades(T) :
             win = [WindowIdle EXCEPT !.pc = "ready", !.source = src, !.start = S,
                                      !.duration = T, !.crossfade = X, !.len = len]

(* run(): the segment of a remote source, or the local file itself.        *)
WindowAcquire ==
    /\ pc = "windowOnly"
    /\ win.pc = "ready"
    /\ win' = [win EXCEPT
                 !.pc = "acquired",
                 !.file = IF win.source = "url"
                          THEN downloadVideoSegment(win.len, win.start,
                                   SegmentDuration(win.duration, win.crossfade))
                          ELSE WholeSource(win.len)]
    /\ UNCHANGED <<harnessFrame, sel, est, uq>>

(* run(): processCrossfade when the crossfade is enabled, else the cascade.*)
WindowEncode ==
    /\ pc = "windowOnly"
    /\ win.pc = "acquired"
    /\ win' = [win EXCEPT
                 !.pc = "encoded",
                 !.window = IF win.crossfade > 0
                            THEN processCrossfadeWindow(win.file, win.duration)
                            ELSE EncodeWindow(win.file, win.start, win.duration)]
    /\ UNCHANGED <<harnessFrame, sel, est, uq>>

NextWindow == WindowAcquire \/ WindowEncode

SpecWindow == InitWindow /\ [][NextWindow]_vars

(* The output path of one run, over the files that exist beforehand.       *)
InitUnique ==
    /\ HarnessInit("uniqueOnly")
    /\ sel = SelIdle
    /\ est = EstIdle
    /\ win = WindowIdle
    /\ \E p \in BasePaths :
          \E files \in SUBSET NearbyPaths(p) :
             uq = [UniqueIdle EXCEPT !.pc = "ready", !.basePath = p,
                                     !.existing = files]

(* run(): outputPath = getUniqueFilePath(outputPath)                       *)
UniqueOutputPath ==
    /\ pc = "uniqueOnly"
    /\ uq.pc = "ready"
    /\ uq' = [uq EXCEPT !.pc = "named",
                        !.outputPath = getUniqueFilePath(uq.existing, uq.basePath)]
    /\ UNCHANGED <<harnessFrame, sel, est, win>>

(* The engine writes the GIF to outputPath.                                *)
WriteOutput ==
    /\ pc = "uniqueOnly"
    /\ uq.pc = "named"
    /\ uq' = [uq EXCEPT !.pc = "written", !.written = {uq.outputPath}]
    /\ UNCHANGED <<harnessFrame, sel, est, win>>

NextUnique == UniqueOutputPath \/ WriteOutput

SpecUnique == InitUnique /\ [][NextUnique]_vars

----------------------------------------------------------------------------
(* withRetry on its own, for every maxRetries, fn behaviour and observer.  *)
InitRetry ==
    /\ opts = IdleOpts
    /\ pc = "retryOnly"
    /\ outcome = "running"
    /\ exitAt = "none"
    /\ tempDir = "none"
    /\ tempFiles = <<>>
    /\ fsTemp = EmptyFs
    /\ log = <<>>
    /\ videoPath = "null"
    /\ processedVideoPath = "null"
    /\ lastEngineErr = None
    /\ rejectErr = None
    /\ loopLen = 0
    /\ cs = CacheIdle
    /\ sel = SelIdle
    /\ est = EstIdle
    /\ win = WindowIdle
    /\ uq = UniqueIdle
    /\ \E m \in 0..MaxRetriesBound, k \in 0..(MaxRetriesBound + 1), o \in BOOLEAN :
          rt = RetryCall(m, DEFAULT_RETRY_DELAY_MS, o, k)

NextRetry == RetryAttempt \/ RetrySleepDone

SpecRetry == InitRetry /\ [][NextRetry]_vars

----------------------------------------------------------------------------
(* The command line: the option values the parser can hand to the program. *)

Sources == {"none", "url", "badurl", "input", "both"}
Durations == {NaN} \cup 0..MaxDuration
Crossfades == {NaN} \cup -1..MaxCrossfade
Speeds == {NaN, 0, 5, NormalSpeed}
ColorValues == {NaN, MinColors - 1, MinColors, MaxColors, MaxColors + 1}
LossyValues == {0, 80}

(* The option checks made while the module loads, before run() is called.  *)
SpeedValid(o) == ~(IsNaN(o.speed) \/ JsLe(o.speed, 0))
ColorsValid(o) == ~(IsNaN(o.colors) \/ JsLt(o.colors, MinColors) \/ JsGt(o.colors, MaxColors))
LossyValid(o) == ~(IsNaN(o.lossy) \/ JsLt(o.lossy, 0) \/ JsGt(o.lossy, 100))
SourceValid(o) == o.source \notin {"none", "both"}
OptionsValid(o) == SpeedValid(o) /\ ColorsValid(o) /\ LossyValid(o) /\ SourceValid(o)

isCrossfadeEnabled == JsGt(opts.crossfade, 0)

(* trackTempFile and cleanupTempFile of run().                             *)
trackTempFile(tracked, f) ==
    IF \E i \in 1..Len(tracked) : tracked[i] = f THEN tracked ELSE Append(tracked, f)
cleanupFs(fs, f) == IF Exists(fs, f) THEN Unlink(fs, f) ELSE fs
cleanupTracked(fs, tracked, f) ==
    IF Exists(fs, f) THEN SelectSeq(tracked, LAMBDA g : g # f) ELSE tracked

LogIf(c, l, e) == IF c THEN Append(l, e) ELSE l

(* process.exit(1): the process ends here, no finally block runs.          *)
Exit(at) ==
    /\ outcome' = "exit1"
    /\ exitAt' = at
    /\ pc' = "exited"

(* An exception thrown inside an event callback: nothing catches it.       *)
Uncaught(at) ==
    /\ outcome' = "uncaught"
    /\ exitAt' = at
    /\ pc' = "exited"

Init ==
    /\ opts \in [source : Sources, cache : BOOLEAN, duration : Durations,
                 crossfade : Crossfades, speed : Speeds, colors : ColorValues,
                 lossy : LossyValues]
    /\ pc = "validate"
    /\ outcome = "running"
    /\ exitAt = "none"
    /\ tempDir = "none"
    /\ tempFiles = <<>>
    /\ fsTemp = EmptyFs
    /\ log = <<>>
    /\ videoPath = "null"
    /\ processedVideoPath = "null"
    /\ lastEngineErr = None
    /\ rejectErr = None
    /\ loopLen = 0
    /\ rt = RetryIdle
    /\ sel = SelIdle
    /\ est = EstIdle
    /\ win = WindowIdle
    /\ uq = UniqueIdle
    /\ cs = CacheIdle

Validate ==
    /\ pc = "validate"
    /\ IF OptionsValid(opts)
       THEN pc' = "runStart" /\ UNCHANGED <<outcome, exitAt>>
       ELSE Exit("validation")
    /\ UNCHANGED <<opts, tempDir, tempFiles, fsTemp, log, videoPath,
                   processedVideoPath, lastEngineErr, rejectErr, loopLen, rt>>
    /\ UNCHANGED <<cs, sel, est, win, uq>>

(* run(): cache initialisation, then the await of the hardware detection.  *)
RunInitCache ==
    /\ pc = "runStart"
    /\ log' = LogIf(opts.cache, log, "cacheInit")
    /\ pc' = "try"
    /\ UNCHANGED <<opts, outcome, exitAt, tempDir, tempFiles, fsTemp, videoPath,
                   processedVideoPath, lastEngineErr, rejectErr, loopLen, rt>>
    /\ UNCHANGED <<cs, sel, est, win, uq>>

(* run(), remote source: temp directory, video id, cached metadata, and    *)
(* the call of withRetry for the metadata.                                 *)
RunTryUrl ==
    /\ pc = "try"
    /\ opts.source \in {"url", "badurl"}
    /\ tempDir' = "exists"
    /\ videoPath' = "video.mp4"
    /\ tempFiles' = trackTempFile(tempFiles, "video.mp4")
    /\ IF opts.source = "badurl"
       THEN /\ Exit("badUrl")
            /\ log' = Append(log, "mkdtemp")
            /\ rt' = rt
       ELSE /\ UNCHANGED <<outcome, exitAt>>
            /\ log' = LogIf(opts.cache, Append(log, "mkdtemp"), "cacheInfoGet")
            /\ \/ /\ opts.cache
                  /\ pc' = "download"
                  /\ rt' = rt
               \/ /\ pc' = "awaitInfo"
                  /\ \E k \in 0..(DEFAULT_RETRY_ATTEMPTS + 1) :
                        rt' = RetryCall(DEFAULT_RETRY_ATTEMPTS, DEFAULT_RETRY_DELAY_MS, TRUE, k)
    /\ UNCHANGED <<opts, fsTemp, processedVideoPath, lastEngineErr, rejectErr, loopLen>>
    /\ UNCHANGED <<cs, sel, est, win, uq>>

InfoReturned ==
    /\ pc = "awaitInfo"
    /\ rt.pc = "returned"
    /\ log' = LogIf(opts.cache, log, "cacheInfoPut")
    /\ pc' = "download"
    /\ UNCHANGED <<opts, outcome, exitAt, tempDir, tempFiles, fsTemp, videoPath,
                   processedVideoPath, lastEngineErr, rejectErr, loopLen, rt>>
    /\ UNCHANGED <<cs, sel, est, win, uq>>

InfoThrown ==
    /\ pc = "awaitInfo"
    /\ rt.pc = "thrown"
    /\ Exit("metadata")
    /\ UNCHANGED <<opts, tempDir, tempFiles, fsTemp, log, videoPath,
                   processedVideoPath, lastEngineErr, rejectErr, loopLen, rt>>
    /\ UNCHANGED <<cs, sel, est, win, uq>>

(* The cache hit of downloadVideoSegment when it also stores the segment.  *)
CacheHitEffectsResave == <<"cacheSegGet", "copyCached", "cacheSegPut">>

(* The cache hit of downloadVideoSegment: getCachedSegment, copyFileSync.  *)
CacheHitEffects == <<"cacheSegGet", "copyCached">>

(* downloadVideoSegment up to the start of the transfer: the lookup in the *)
(* segment cache returns a path (the cached file is copied to the output   *)
(* path and the promise resolves), returns null (a format is selected and  *)
(* the transfer starts), or throws out of statSync (the promise rejects).  *)
DownloadStart ==
    /\ pc = "download"
    /\ \/ /\ opts.cache
          /\ log' = log \o CacheHitEffects
          /\ fsTemp' = Put(fsTemp, "video.mp4", "data")
          /\ pc' = "verifyDownload"
          /\ UNCHANGED <<outcome, exitAt>>
       \/ /\ log' = LogIf(opts.cache, log, "cacheSegGet") \o <<"selectFormat", "transfer">>
          /\ fsTemp' = Put(fsTemp, "video.mp4.full.mp4", "data")
          /\ pc' = "transferring"
          /\ UNCHANGED <<outcome, exitAt>>
       \/ /\ opts.cache
          /\ log' = Append(log, "cacheSegGet")
          /\ fsTemp' = fsTemp
          /\ Exit("download")
    /\ UNCHANGED <<opts, tempDir, tempFiles, videoPath,
                   processedVideoPath, lastEngineErr, rejectErr, loopLen, rt>>
    /\ UNCHANGED <<cs, sel, est, win, uq>>

(* The read or the write stream fails and the transfer is started again,   *)
(* once.                                                                   *)
TransferErrorRetries ==
    /\ pc = "transferring"
    /\ IF Cardinality({i \in 1..Len(log) : log[i] = "transfer"}) < 2
       THEN pc' = "download" /\ UNCHANGED <<outcome, exitAt>>
       ELSE Exit("download")
    /\ UNCHANGED <<opts, tempDir, tempFiles, fsTemp, log, videoPath,
                   processedVideoPath, lastEngineErr, rejectErr, loopLen, rt>>
    /\ UNCHANGED <<cs, sel, est, win, uq>>

(* The read or the write stream fails: the promise rejects and run()'s     *)
(* handler of the download ends the process.                               *)
TransferError ==
    /\ pc = "transferring"
    /\ Exit("download")
    /\ UNCHANGED <<opts, tempDir, tempFiles, fsTemp, log, videoPath,
                   processedVideoPath, lastEngineErr, rejectErr, loopLen, rt>>
    /\ UNCHANGED <<cs, sel, est, win, uq>>

TransferFinish ==
    /\ pc = "transferring"
    /\ log' = Append(log, "extractCopy")
    /\ pc' = "extracting"
    /\ UNCHANGED <<opts, outcome, exitAt, tempDir, tempFiles, fsTemp, videoPath,
                   processedVideoPath, lastEngineErr, rejectErr, loopLen, rt>>
    /\ UNCHANGED <<cs, sel, est, win, uq>>

(* The container-level copy ended: the whole-asset file is deleted, then   *)
(* the output is verified.                                                 *)
ExtractEnd ==
    /\ pc = "extracting"
    /\ LET fs1 == Unlink(fsTemp, "video.mp4.full.mp4") IN
       \/ /\ fsTemp' = Put(fs1, "video.mp4", "data")
          /\ log' = LogIf(opts.cache, Append(log, "end"), "cacheSegPut")
          /\ pc' = "verifyDownload"
       \/ /\ \/ fsTemp' = Put(fs1, "video.mp4", "empty")
             \/ fsTemp' = fs1
          /\ log' = log \o <<"end", "extractTranscode">>
          /\ pc' = "transcoding"
    /\ UNCHANGED <<opts, outcome, exitAt, tempDir, tempFiles, videoPath,
                   processedVideoPath, lastEngineErr, rejectErr, loopLen, rt>>
    /\ UNCHANGED <<cs, sel, est, win, uq>>

ExtractError ==
    /\ pc = "extracting"
    /\ log' = log \o <<"error", "extractTranscode">>
    /\ pc' = "transcoding"
    /\ UNCHANGED <<opts, outcome, exitAt, tempDir, tempFiles, fsTemp, videoPath,
                   processedVideoPath, lastEngineErr, rejectErr, loopLen, rt>>
    /\ UNCHANGED <<cs, sel, est, win, uq>>

(* The transcoding extraction reads the whole-asset file: the engine can   *)
(* end successfully only while that file exists.                           *)
TranscodeEnd ==
    /\ pc = "transcoding"
    /\ Exists(fsTemp, "video.mp4.full.mp4")
    /\ \E c \in {"data", "empty"} :
          fsTemp' = Put(Unlink(fsTemp, "video.mp4.full.mp4"), "video.mp4", c)
    /\ log' = LogIf(opts.cache, Append(log, "end"), "cacheSegPut")
    /\ pc' = "verifyDownload"
    /\ UNCHANGED <<opts, outcome, exitAt, tempDir, tempFiles, videoPath,
                   processedVideoPath, lastEngineErr, rejectErr, loopLen, rt>>
    /\ UNCHANGED <<cs, sel, est, win, uq>>

TranscodeError ==
    /\ pc = "transcoding"
    /\ log' = Append(log, "error")
    /\ Exit("download")
    /\ UNCHANGED <<opts, tempDir, tempFiles, fsTemp, videoPath,
                   processedVideoPath, lastEngineErr, rejectErr, loopLen, rt>>
    /\ UNCHANGED <<cs, sel, est, win, uq>>

VerifyDownload ==
    /\ pc = "verifyDownload"
    /\ IF ~Exists(fsTemp, videoPath) \/ fsTemp[videoPath] = "empty"
       THEN Exit("emptyDownload")
       ELSE pc' = "outputDir" /\ UNCHANGED <<outcome, exitAt>>
    /\ UNCHANGED <<opts, tempDir, tempFiles, fsTemp, log, videoPath,
                   processedVideoPath, lastEngineErr, rejectErr, loopLen, rt>>
    /\ UNCHANGED <<cs, sel, est, win, uq>>

(* run(), local source: temp directory, then the existence and read checks.*)
RunTryInput ==
    /\ pc = "try"
    /\ opts.source = "input"
    /\ tempDir' = "exists"
    /\ log' = Append(log, "mkdtemp")
    /\ videoPath' = "input"
    /\ \/ Exit("noInput")
       \/ Exit("unreadable")
       \/ pc' = "outputDir" /\ UNCHANGED <<outcome, exitAt>>
    /\ UNCHANGED <<opts, tempFiles, fsTemp, processedVideoPath, lastEngineErr,
                   rejectErr, loopLen, rt>>
    /\ UNCHANGED <<cs, sel, est, win, uq>>

(* The output directory check, then preprocessVideoSpeed up to the engine. *)
CheckOutputDir ==
    /\ pc = "outputDir"
    /\ \/ /\ Exit("unwritable")
          /\ UNCHANGED <<log, processedVideoPath>>
       \/ /\ UNCHANGED <<outcome, exitAt>>
          /\ IF opts.speed = NormalSpeed
             THEN /\ processedVideoPath' = videoPath
                  /\ pc' = "afterSpeed"
                  /\ log' = log
             ELSE /\ log' = Append(log, "speed")
                  /\ pc' = "speeding"
                  /\ UNCHANGED processedVideoPath
    /\ UNCHANGED <<opts, tempDir, tempFiles, fsTemp, videoPath, lastEngineErr,
                   rejectErr, loopLen, rt>>
    /\ UNCHANGED <<cs, sel, est, win, uq>>

(* A variant that goes on without the engine's 'end' event.                *)
SpeedEndNotAwaited ==
    /\ pc = "speeding"
    /\ fsTemp' = Put(fsTemp, "speed_adjusted.mp4", "data")
    /\ processedVideoPath' = "speed_adjusted.mp4"
    /\ log' = log
    /\ pc' = "afterSpeed"
    /\ UNCHANGED <<opts, outcome, exitAt, tempDir, tempFiles, videoPath,
                   lastEngineErr, rejectErr, loopLen, rt>>
    /\ UNCHANGED <<cs, sel, est, win, uq>>

SpeedEnd ==
    /\ pc = "speeding"
    /\ fsTemp' = Put(fsTemp, "speed_adjusted.mp4", "data")
    /\ processedVideoPath' = "speed_adjusted.mp4"
    /\ log' = Append(log, "end")
    /\ pc' = "afterSpeed"
    /\ UNCHANGED <<opts, outcome, exitAt, tempDir, tempFiles, videoPath,
                   lastEngineErr, rejectErr, loopLen, rt>>
    /\ UNCHANGED <<cs, sel, est, win, uq>>

(* A variant in which the engine error ends the run.                       *)
SpeedErrorAborts ==
    /\ pc = "speeding"
    /\ log' = Append(log, "error")
    /\ Exit("speed")
    /\ UNCHANGED <<opts, tempDir, tempFiles, fsTemp, videoPath, processedVideoPath,
                   lastEngineErr, rejectErr, loopLen, rt>>
    /\ UNCHANGED <<cs, sel, est, win, uq>>

(* Speed is best effort: on an engine error the unmodified input is used.  *)
SpeedError ==
    /\ pc = "speeding"
    /\ processedVideoPath' = videoPath
    /\ log' = Append(log, "error")
    /\ pc' = "afterSpeed"
    /\ UNCHANGED <<opts, outcome, exitAt, tempDir, tempFiles, fsTemp, videoPath,
                   lastEngineErr, rejectErr, loopLen, rt>>
    /\ UNCHANGED <<cs, sel, est, win, uq>>

----------------------------------------------------------------------------
(* Loop Synthesizer: the filter graph of processCrossfade, by the lengths  *)
(* of the streams it produces from an input of length len.                 *)

Min(a, b) == IF a < b THEN a ELSE b
Max(a, b) == IF a > b THEN a ELSE b

(* trim=start=s:end=e keeps the frames with s <= t < e.                    *)
TrimLen(len, s, e) == Max(0, Min(e, len) - Min(Max(s, 0), len))
(* overlay ends with its first (main) input.                               *)
OverlayLen(mainLen, overLen) == mainLen
ConcatLen(a, b) == a + b

MainLen(len, T, X) == TrimLen(len, X, T - X)
FadeinLen(len, T, X) == TrimLen(len, 0, X)
FadeoutLen(len, T, X) == TrimLen(len, T - X, T)
TransitionLen(len, T, X) == OverlayLen(FadeoutLen(len, T, X), FadeinLen(len, T, X))
CrossfadeOutputLen(len, T, X) == ConcatLen(MainLen(len, T, X), TransitionLen(len, T, X))

(* The inputs handed to processCrossfade cover at least the requested      *)
(* duration; a remote segment is fetched with up to crossfade more.        *)
InputLengths(T, X) == T..(T + X)

----------------------------------------------------------------------------
(* run() after the speed preprocessing: release of the raw segment, the    *)
(* size estimate, the crossfade precondition, and the start of the first   *)
(* engine invocation.                                                      *)

usingTempVideo == opts.source = "url"

AfterSpeed ==
    /\ pc = "afterSpeed"
    /\ LET release == usingTempVideo /\ videoPath # processedVideoPath IN
       /\ fsTemp' = IF release THEN cleanupFs(fsTemp, videoPath) ELSE fsTemp
       /\ tempFiles' = IF release THEN cleanupTracked(fsTemp, tempFiles, videoPath)
                       ELSE tempFiles
    /\ IF isCrossfadeEnabled
       THEN IF JsGe(opts.crossfade, opts.duration)
            THEN Exit("loopPrecondition") /\ log' = Append(log, "estimate")
            ELSE /\ log' = log \o <<"estimate", "crossfadeVideo">>
                 /\ pc' = "crossfadeVideo"
                 /\ UNCHANGED <<outcome, exitAt>>
       ELSE /\ log' = log \o <<"estimate", "tier1">>
            /\ pc' = "tier1"
            /\ UNCHANGED <<outcome, exitAt>>
    /\ UNCHANGED <<opts, tempDir, videoPath, processedVideoPath, lastEngineErr,
                   rejectErr, loopLen, rt>>
    /\ UNCHANGED <<cs, sel, est, win, uq>>

(* processCrossfade: the crossfade video is written; the output directory  *)
(* is checked inside the event callback; the GIF encoding starts.          *)
CrossfadeVideoEnd ==
    /\ pc = "crossfadeVideo"
    /\ ~IsNaN(opts.duration)
    /\ \E len \in InputLengths(opts.duration, opts.crossfade) :
          loopLen' = CrossfadeOutputLen(len, opts.duration, opts.crossfade)
    /\ fsTemp' = Put(fsTemp, "crossfade_video.mp4", "data")
    /\ \/ /\ Uncaught("crossfadeOutputDir")
          /\ log' = Append(log, "end")
       \/ /\ log' = log \o <<"end", "crossfadeGif">>
          /\ pc' = "crossfadeGif"
          /\ UNCHANGED <<outcome, exitAt>>
    /\ UNCHANGED <<opts, tempDir, tempFiles, videoPath, processedVideoPath,
                   lastEngineErr, rejectErr, rt>>
    /\ UNCHANGED <<cs, sel, est, win, uq>>

CrossfadeVideoError ==
    /\ pc = "crossfadeVideo"
    /\ lastEngineErr' = EngineError("crossfadeVideo")
    /\ rejectErr' = EngineError("crossfadeVideo")
    /\ log' = Append(log, "error")
    /\ pc' = "catch"
    /\ UNCHANGED <<opts, outcome, exitAt, tempDir, tempFiles, fsTemp, videoPath,
                   processedVideoPath, loopLen, rt>>
    /\ UNCHANGED <<cs, sel, est, win, uq>>

CrossfadeGifEnd ==
    /\ pc = "crossfadeGif"
    /\ fsTemp' = cleanupFs(fsTemp, "crossfade_video.mp4")
    /\ tempFiles' = cleanupTracked(fsTemp, tempFiles, "crossfade_video.mp4")
    /\ log' = log \o <<"end", "postProcess">>
    /\ pc' = "post"
    /\ UNCHANGED <<opts, outcome, exitAt, tempDir, videoPath, processedVideoPath,
                   lastEngineErr, rejectErr, loopLen, rt>>
    /\ UNCHANGED <<cs, sel, est, win, uq>>

CrossfadeGifErrorFallsBack ==
    /\ pc = "crossfadeGif"
    /\ lastEngineErr' = EngineError("crossfadeGif")
    /\ log' = log \o <<"error", "tier1">>
    /\ pc' = "tier1"
    /\ UNCHANGED <<opts, outcome, exitAt, tempDir, tempFiles, fsTemp, videoPath,
                   processedVideoPath, rejectErr, loopLen, rt>>
    /\ UNCHANGED <<cs, sel, est, win, uq>>

CrossfadeGifError ==
    /\ pc = "crossfadeGif"
    /\ lastEngineErr' = EngineError("crossfadeGif")
    /\ rejectErr' = EngineError("crossfadeGif")
    /\ log' = Append(log, "error")
    /\ pc' = "catch"
    /\ UNCHANGED <<opts, outcome, exitAt, tempDir, tempFiles, fsTemp, videoPath,
                   processedVideoPath, loopLen, rt>>
    /\ UNCHANGED <<cs, sel, est, win, uq>>

----------------------------------------------------------------------------
(* Encoding Cascade: the event handlers of the nested engine invocations.  *)

(* Single-pass filter graph succeeded.                                     *)
Tier1End ==
    /\ pc = "tier1"
    /\ LET release == processedVideoPath # videoPath IN
       /\ fsTemp' = IF release THEN cleanupFs(fsTemp, processedVideoPath) ELSE fsTemp
       /\ tempFiles' = IF release
                       THEN cleanupTracked(fsTemp, tempFiles, processedVideoPath)
                       ELSE tempFiles
    /\ log' = log \o <<"end", "postProcess">>
    /\ pc' = "post"
    /\ UNCHANGED <<opts, outcome, exitAt, tempDir, videoPath, processedVideoPath,
                   lastEngineErr, rejectErr, loopLen, rt>>
    /\ UNCHANGED <<cs, sel, est, win, uq>>

(* Single-pass failed: start the palette generation of the two-pass method.*)
Tier1Error ==
    /\ pc = "tier1"
    /\ lastEngineErr' = EngineError("tier1")
    /\ log' = log \o <<"error", "palettegen">>
    /\ pc' = "palettegen"
    /\ UNCHANGED <<opts, outcome, exitAt, tempDir, tempFiles, fsTemp, videoPath,
                   processedVideoPath, rejectErr, loopLen, rt>>
    /\ UNCHANGED <<cs, sel, est, win, uq>>

(* Palette generated: start the second pass that applies it.               *)
PaletteEnd ==
    /\ pc = "palettegen"
    /\ fsTemp' = Put(fsTemp, "palette.png", "data")
    /\ log' = log \o <<"end", "paletteuse">>
    /\ pc' = "paletteuse"
    /\ UNCHANGED <<opts, outcome, exitAt, tempDir, tempFiles, videoPath,
                   processedVideoPath, lastEngineErr, rejectErr, loopLen, rt>>
    /\ UNCHANGED <<cs, sel, est, win, uq>>

(* Palette generation failed: start the basic scale+fps conversion.        *)
PaletteError ==
    /\ pc = "palettegen"
    /\ lastEngineErr' = EngineError("palettegen")
    /\ log' = log \o <<"error", "basic">>
    /\ pc' = "basic"
    /\ UNCHANGED <<opts, outcome, exitAt, tempDir, tempFiles, fsTemp, videoPath,
                   processedVideoPath, rejectErr, loopLen, rt>>
    /\ UNCHANGED <<cs, sel, est, win, uq>>

BasicEnd ==
    /\ pc = "basic"
    /\ log' = log \o <<"end", "postProcess">>
    /\ pc' = "post"
    /\ UNCHANGED <<opts, outcome, exitAt, tempDir, tempFiles, fsTemp, videoPath,
                   processedVideoPath, lastEngineErr, rejectErr, loopLen, rt>>
    /\ UNCHANGED <<cs, sel, est, win, uq>>

(* The basic conversion failed: reject(fallbackErr).                       *)
BasicError ==
    /\ pc = "basic"
    /\ lastEngineErr' = EngineError("basic")
    /\ rejectErr' = EngineError("basic")
    /\ log' = Append(log, "error")
    /\ pc' = "catch"
    /\ UNCHANGED <<opts, outcome, exitAt, tempDir, tempFiles, fsTemp, videoPath,
                   processedVideoPath, loopLen, rt>>
    /\ UNCHANGED <<cs, sel, est, win, uq>>

SecondPassEndFallsThrough ==
    /\ pc = "paletteuse"
    /\ log' = log \o <<"end", "postProcess", "basic">>
    /\ pc' = "basic"
    /\ UNCHANGED <<opts, outcome, exitAt, tempDir, tempFiles, fsTemp, videoPath,
                   processedVideoPath, lastEngineErr, rejectErr, loopLen, rt>>
    /\ UNCHANGED <<cs, sel, est, win, uq>>

SecondPassEnd ==
    /\ pc = "paletteuse"
    /\ log' = log \o <<"end", "postProcess">>
    /\ pc' = "post"
    /\ UNCHANGED <<opts, outcome, exitAt, tempDir, tempFiles, fsTemp, videoPath,
                   processedVideoPath, lastEngineErr, rejectErr, loopLen, rt>>
    /\ UNCHANGED <<cs, sel, est, win, uq>>

(* The second pass failed: the handler runs the direct commands            *)
(* synchronously (execSync): first the scale+fps command, and if that      *)
(* throws the single-pass palette command; if both throw it rejects with   *)
(* a new Error.                                                            *)
SecondPassError ==
    /\ pc = "paletteuse"
    /\ \/ /\ log' = log \o <<"error", "directBasic", "end", "postProcess">>
          /\ lastEngineErr' = EngineError("paletteuse")
          /\ pc' = "post"
          /\ UNCHANGED rejectErr
       \/ /\ log' = log \o <<"error", "directBasic", "error",
                             "directSinglePass", "end", "postProcess">>
          /\ lastEngineErr' = EngineError("directBasic")
          /\ pc' = "post"
          /\ UNCHANGED rejectErr
       \/ /\ log' = log \o <<"error", "directBasic", "error",
                             "directSinglePass", "error">>
          /\ lastEngineErr' = EngineError("directSinglePass")
          /\ rejectErr' = NewError("All conversion methods failed")
          /\ pc' = "catch"
    /\ UNCHANGED <<opts, outcome, exitAt, tempDir, tempFiles, fsTemp, videoPath,
                   processedVideoPath, loopLen, rt>>
    /\ UNCHANGED <<cs, sel, est, win, uq>>

----------------------------------------------------------------------------
(* Post-Compressor and the end of run().                                   *)

PostSkipped == opts.colors = MaxColors /\ opts.lossy = 0

(* postProcessGif settles and the awaiting handler reports success and     *)
(* resolves.  The compressor is skipped, succeeds, fails (kept output) or  *)
(* throws inside the promise executor (logged by the caller); a throw      *)
(* inside the execFile callback is uncaught.                               *)
PostProcessDone ==
    /\ pc = "post"
    /\ \/ /\ log' = Append(log, "success")
          /\ pc' = "finally"
          /\ UNCHANGED <<outcome, exitAt>>
       \/ /\ ~PostSkipped
          /\ Uncaught("postProcess")
          /\ log' = log
    /\ UNCHANGED <<opts, tempDir, tempFiles, fsTemp, videoPath, processedVideoPath,
                   lastEngineErr, rejectErr, loopLen, rt>>
    /\ UNCHANGED <<cs, sel, est, win, uq>>

(* catch (error) { ... process.exit(1) }                                   *)
RunCatch ==
    /\ pc = "catch"
    /\ Exit("catch")
    /\ UNCHANGED <<opts, tempDir, tempFiles, fsTemp, log, videoPath,
                   processedVideoPath, lastEngineErr, rejectErr, loopLen, rt>>
    /\ UNCHANGED <<cs, sel, est, win, uq>>

(* finally: the sweep of the tracked paths and of the temp directory.      *)
RunFinally ==
    /\ pc = "finally"
    /\ fsTemp' = EmptyFs
    /\ tempDir' = IF tempDir = "exists" THEN "removed" ELSE tempDir
    /\ log' = Append(log, "sweep")
    /\ outcome' = "success"
    /\ pc' = "done"
    /\ UNCHANGED <<opts, exitAt, tempFiles, videoPath, processedVideoPath,
                   lastEngineErr, rejectErr, loopLen, rt>>
    /\ UNCHANGED <<cs, sel, est, win, uq>>

Next ==
    \/ Validate \/ RunInitCache \/ RunTryUrl \/ RunTryInput
    \/ RetryAttempt \/ RetrySleepDone \/ InfoReturned \/ InfoThrown
    \/ DownloadStart \/ TransferError \/ TransferFinish
    \/ ExtractEnd \/ ExtractError \/ TranscodeEnd \/ TranscodeError
    \/ VerifyDownload \/ CheckOutputDir \/ SpeedEnd \/ SpeedError \/ AfterSpeed
    \/ CrossfadeVideoEnd \/ CrossfadeVideoError \/ CrossfadeGifEnd \/ CrossfadeGifError
    \/ Tier1End \/ Tier1Error \/ PaletteEnd \/ PaletteError
    \/ BasicEnd \/ BasicError \/ SecondPassEnd \/ SecondPassError
    \/ PostProcessDone \/ RunCatch \/ RunFinally

Spec == Init /\ [][Next]_vars

----------------------------------------------------------------------------
(* Reading the log.                                                        *)

TierOps == {"tier1", "palettegen", "paletteuse", "basic", "directBasic", "directSinglePass"}
(* The invocations whose success is the success of a cascade tier.         *)
FinalOps == {"tier1", "paletteuse", "basic", "directBasic", "directSinglePass"}

Has(op) == \E i \in 1..Len(log) : log[i] = op
Count(op) == Cardinality({i \in 1..Len(log) : log[i] = op})
Failed(op) == \E i \in 1..(Len(log) - 1) : log[i] = op /\ log[i + 1] = "error"
Ended(op) == \E i \in 1..(Len(log) - 1) : log[i] = op /\ log[i + 1] = "end"
FailedBefore(a, b) ==
    \E i \in 1..(Len(log) - 1), j \in 1..Len(log) :
        i < j /\ log[i] = a /\ log[i + 1] = "error" /\ log[j] = b
Terminated == outcome # "running"

----------------------------------------------------------------------------
(* C1: on every exit path taken after the temp directory was created, the  *)
(* final sweep has run when the process terminates: the temp directory and *)
(* every file in it are removed.                                           *)
C1_SweepOnEveryExit ==
    (Terminated /\ tempDir # "none") =>
        /\ Has("sweep")
        /\ tempDir = "removed"
        /\ DOMAIN fsTemp = {}

(* C2: the non-crossfade conversion is rejected only after every cascade   *)
(* tier (single-pass, two-pass, basic fallback, direct command) has been   *)
(* attempted and has failed.                                               *)
C2_FailsOnlyAfterAllTiers ==
    (rejectErr # None /\ Has("tier1")) =>
        /\ Failed("tier1")
        /\ Failed("palettegen") \/ Failed("paletteuse")
        /\ Failed("basic")
        /\ Failed("directBasic") /\ Failed("directSinglePass")

(* C3: the strategies start in the order single-pass, two-pass (palette    *)
(* generation, then application), basic fallback, direct command (its      *)
(* single-pass command, then its basic command), each only after the       *)
(* previous one failed.                                                    *)
C3_TiersInFixedOrder ==
    /\ Has("palettegen") => FailedBefore("tier1", "palettegen")
    /\ Has("paletteuse") => Ended("palettegen")
    /\ Has("basic") => \/ FailedBefore("palettegen", "basic")
                       \/ FailedBefore("paletteuse", "basic")
    /\ Has("directSinglePass") => FailedBefore("basic", "directSinglePass")
    /\ Has("directBasic") => FailedBefore("directSinglePass", "directBasic")

(* C4: when the cascade fails, the conversion is rejected with the error   *)
(* object raised by the last engine invocation attempted.                  *)
C4_RejectsWithLastEngineError ==
    (rejectErr # None /\ Has("tier1")) => rejectErr = lastEngineErr

(* C5: no cascade tier is invoked twice; once a tier succeeds no further   *)
(* tier starts and postProcessGif is what is invoked next; a run that      *)
(* reports success has invoked postProcessGif exactly once, before the     *)
(* report.                                                                 *)
C5_NoRetryAndSuccessGoesToPost ==
    /\ \A op \in TierOps : Count(op) <= 1
    /\ \A i \in 1..(Len(log) - 1) :
          (log[i] \in FinalOps /\ log[i + 1] = "end") =>
              /\ Len(log) >= i + 2
              /\ log[i + 2] = "postProcess"
              /\ \A j \in (i + 2)..Len(log) : log[j] \notin TierOps
    /\ Count("postProcess") <= 1
    /\ \A i \in 1..Len(log) :
          log[i] = "success" => (i > 1 /\ log[i - 1] = "postProcess")
    /\ outcome = "success" => Has("success")

C5_Witness ==
    /\ outcome = "success"
    /\ Failed("tier1")
    /\ Failed("directBasic")
    /\ Ended("directSinglePass")

(* C6: for 0 < X < T the crossfade video that processCrossfade's filter    *)
(* graph produces has length T.                                            *)
C6_LoopLengthIsDuration ==
    Ended("crossfadeVideo") => loopLen = opts.duration

(* C7: a request with crossfade >= duration is rejected before any I/O:    *)
(* no cache access, no metadata or rendition transfer, no temp file or     *)
(* directory, no engine invocation.                                        *)
C7_LoopPreconditionBeforeIO ==
    exitAt = "loopPrecondition" =>
        /\ log = <<>>
        /\ rt.calls = 0
        /\ tempDir = "none"
        /\ DOMAIN fsTemp = {}

(* C8: after an engine failure inside processCrossfade (crossfade video or *)
(* final GIF) no cascade tier is ever started, success is never reported,  *)
(* and the run ends in failure with that error.                            *)
C8_CrossfadeFailureIsTerminal ==
    (Failed("crossfadeVideo") \/ Failed("crossfadeGif")) =>
        /\ \A op \in TierOps : ~Has(op)
        /\ ~Has("success")
        /\ ~Has("postProcess")
        /\ pc \in {"catch", "exited"}
        /\ rejectErr = lastEngineErr /\ rejectErr.kind = "engine"
        /\ Terminated => outcome = "exit1"

C8_Witness ==
    /\ Failed("crossfadeGif")
    /\ Ended("crossfadeVideo")
    /\ outcome = "exit1"
    /\ exitAt = "catch"

(* C9: every request that reaches the acquisition stage of run() has       *)
(* duration > 0, 0 <= crossfade < duration, speed > 0, 2 <= colors <= 256. *)
RequestInvariants(o) ==
    /\ JsGt(o.duration, 0)
    /\ JsGe(o.crossfade, 0) /\ JsLt(o.crossfade, o.duration)
    /\ JsGt(o.speed, 0)
    /\ JsGe(o.colors, MinColors) /\ JsLe(o.colors, MaxColors)

C9_AcquisitionRequestsValid ==
    pc = "try" => RequestInvariants(opts)

----------------------------------------------------------------------------
(* C10: a function that fails exactly K times and then succeeds, run under *)
(* withRetry with maxRetries >= K, ends by returning the success value     *)
(* after exactly K+1 calls of the function and exactly K calls of the      *)
(* observer.                                                               *)
C10_RetryReturnsAfterKFailures ==
    (rt.pc \in {"returned", "thrown"} /\ rt.plan <= rt.maxRetries) =>
        /\ rt.pc = "returned"
        /\ rt.result = SuccessValue
        /\ rt.calls = rt.plan + 1
        /\ (rt.hasObserver => Len(rt.observed) = rt.plan)

C10_Witness ==
    /\ rt.pc = "returned"
    /\ rt.hasObserver
    /\ rt.plan = rt.maxRetries
    /\ rt.plan >= 2
    /\ Len(rt.observed) = rt.plan

(* C11: withRetry makes at most maxRetries+1 attempts; after failed        *)
(* attempt k <= maxRetries it sleeps exactly once, for                     *)
(* baseDelay * 1.5^(k-1), before attempt k+1; it does not sleep after the  *)
(* final attempt nor after a successful one.                               *)
C11_RetryAttemptsAndBackoff ==
    /\ rt.calls <= rt.maxRetries + 1
    /\ \A k \in 1..Len(rt.sleeps) :
          /\ k <= rt.maxRetries
          /\ rt.sleeps[k][1] * Pow(2, k - 1) = rt.delay * Pow(3, k - 1) * rt.sleeps[k][2]
    /\ rt.pc = "call" => Len(rt.sleeps) = rt.calls /\ rt.attempt = rt.calls + 1
    /\ rt.pc = "sleep" => Len(rt.sleeps) = rt.calls - 1
    /\ rt.pc = "returned" => Len(rt.sleeps) = rt.calls - 1
    /\ rt.pc = "thrown" =>
          /\ rt.calls = rt.maxRetries + 1
          /\ Len(rt.sleeps) = rt.maxRetries

C11_Witness ==
    /\ rt.pc = "thrown"
    /\ rt.maxRetries >= 2
    /\ Len(rt.sleeps) = rt.maxRetries
    /\ rt.sleeps[2] = <<3 * rt.delay, 2>>

(* C12: when all maxRetries+1 attempts fail, withRetry raises the error    *)
(* object thrown by the wrapped function on its last attempt, itself.      *)
C12_RetryRaisesOriginalError ==
    rt.pc = "thrown" =>
        /\ rt.calls = rt.maxRetries + 1
        /\ rt.raised = FnError(rt.calls)
        /\ rt.raised.kind = "fn"

C12_Witness ==
    /\ rt.pc = "thrown"
    /\ rt.maxRetries >= 1
    /\ rt.raised = FnError(rt.maxRetries + 1)

(* C13 as stated: on each retry the observer receives the error of the     *)
(* attempt that just failed, the 1-based number of that attempt, and the   *)
(* maximum number of attempts the executor makes (maxRetries + 1).         *)
C13_ObserverGetsMaxAttempts ==
    rt.hasObserver =>
        \A i \in 1..Len(rt.observed) :
            rt.observed[i] = <<FnError(i), i, rt.maxRetries + 1>>

(* C13 amended: the third argument is maxRetries, the number of retries    *)
(* (one less than the number of attempts).                                 *)
C13_ObserverGetsMaxRetries ==
    rt.hasObserver =>
        /\ \A i \in 1..Len(rt.observed) :
              rt.observed[i] = <<FnError(i), i, rt.maxRetries>>
        /\ rt.pc \in {"sleep", "returned", "thrown"} =>
              Len(rt.observed) = Len(rt.sleeps) + (IF rt.pc = "sleep" THEN 1 ELSE 0)

C13_Witness ==
    /\ rt.hasObserver
    /\ Len(rt.observed) >= 2
    /\ rt.observed[2] = <<FnError(2), 2, rt.maxRetries>>

----------------------------------------------------------------------------
(* Reading the last cache call.                                            *)

CacheTouches ==
    {"initializeCache", "getCachedSegment", "saveCachedSegment",
     "getCachedVideoInfo", "saveCachedVideoInfo"}
SameSegment(r1, r2) ==
    r1.id = r2.id /\ r1.start = r2.start /\ r1.duration = r2.duration
(* The last call was a getCachedSegment in which no file system call threw. *)
SegmentRead == cs.op.name = "getCachedSegment" /\ cs.op.fault = "none"
(* The last call reads the key of the segment last stored, within max-age  *)
(* of the store and with no eviction of it in between.                     *)
ReadOfSaved ==
    /\ SegmentRead
    /\ cs.saved.live
    /\ SameSegment(cs.op.req, cs.saved.req)
    /\ cs.now - cs.saved.time <= 7

(* C14: with caching enabled, after any touch of the segment cache         *)
(* (initializeCache, getCachedSegment, saveCachedSegment,                  *)
(* getCachedVideoInfo, saveCachedVideoInfo) the total size of the entries  *)
(* that remain is at most the cap, cacheSize.                              *)
C14_CacheWithinCapAfterTouch ==
    (opts.cache /\ cs.op.name \in CacheTouches) => TotalSize(cs.dir) <= cs.cacheSize

C16_HitIffFreshAndNonEmpty ==
    (opts.cache /\ SegmentRead) =>
        LET e == cs.op.entry
            present == e # NoEntry
            valid == present /\ cs.now - e.mtime <= 7 /\ FileSize(e.content) > 0
        IN /\ cs.op.result = "path" <=> valid
           /\ cs.op.result \in {"path", "null"}
           /\ valid => cs.op.path \in DOMAIN cs.dir /\ cs.dir[cs.op.path] = e
           /\ (present /\ ~valid) => cs.op.path \notin DOMAIN cs.dir

C16_Witness ==
    /\ SegmentRead
    /\ cs.op.entry.content = "empty"
    /\ cs.now - cs.op.entry.mtime <= 7
    /\ cs.op.result = "null"
    /\ cs.op.path \notin DOMAIN cs.dir

(* C17: getCachedSegment soft-fails: when a file system call throws while  *)
(* it checks, stats or purges the entry, it returns a miss (null); no      *)
(* exception leaves it.                                                    *)
C17_ReadSoftFails ==
    (cs.op.name = "getCachedSegment" /\ cs.op.fault # "none") => cs.op.result = "null"

(* C18 as stated: after saveCachedSegment succeeds, src still exists       *)
(* unchanged, and a getCachedSegment of the same key within max-age and    *)
(* before any eviction returns a path whose content is the content src had *)
(* when it was stored.                                                     *)
C18_RoundTripAnySource ==
    /\ cs.saved.live =>
          Exists(fsTemp, "video.mp4") /\ fsTemp["video.mp4"] = cs.saved.content
    /\ ReadOfSaved =>
          cs.op.result = "path" /\ cs.op.content = cs.saved.content

(* C18 amended: the round trip holds for a src of size > 0; an empty src   *)
(* is stored, and the read deletes it and reports a miss.                  *)
C18_RoundTripNonEmptySource ==
    /\ cs.saved.live =>
          Exists(fsTemp, "video.mp4") /\ fsTemp["video.mp4"] = cs.saved.content
    /\ (ReadOfSaved /\ FileSize(cs.saved.content) > 0) =>
          cs.op.result = "path" /\ cs.op.content = cs.saved.content
    /\ (ReadOfSaved /\ FileSize(cs.saved.content) = 0) => cs.op.result = "null"

C18_Witness ==
    /\ ReadOfSaved
    /\ cs.now - cs.saved.time = 7
    /\ cs.op.result = "path"
    /\ cs.op.content = "data2"
    /\ fsTemp["video.mp4"] = "data2"

(* C19: the cache key depends only on (remote id, start, duration): two    *)
(* requests that agree on these and differ in quality or target width have *)
(* the same key, and a segment one of them stored is a hit for the other.  *)
C19_KeyIgnoresQualityAndWidth ==
    /\ \A r1, r2 \in Requests : SameSegment(r1, r2) => SegmentKey(r1) = SegmentKey(r2)
    /\ (ReadOfSaved /\ FileSize(cs.saved.content) > 0) =>
          /\ cs.op.path = SegmentPath(SegmentKey(cs.saved.req))
          /\ cs.op.result = "path"

C19_Witness ==
    /\ ReadOfSaved
    /\ cs.op.req.quality # cs.saved.req.quality
    /\ cs.op.req.width # cs.saved.req.width
    /\ cs.op.result = "path"
    /\ cs.op.entry = [content |-> cs.saved.content, mtime |-> cs.saved.time]

(* C20: on a segment cache hit, downloadVideoSegment copies the cached     *)
(* file to the output path and resolves; it selects no rendition, starts   *)
(* no transfer, does not invoke the engine for extraction and does not     *)
(* write to the cache.                                                     *)
C20_CacheHitOnlyCopies ==
    Has("copyCached") =>
        /\ Count("cacheSegGet") = 1 /\ Count("copyCached") = 1
        /\ ~Has("selectFormat")
        /\ ~Has("transfer")
        /\ ~Has("extractCopy") /\ ~Has("extractTranscode")
        /\ ~Has("cacheSegPut")
        /\ pc = "verifyDownload" => Exists(fsTemp, "video.mp4")
        /\ exitAt # "download"

C20_Witness ==
    /\ Has("copyCached")
    /\ outcome = "success"

(* C21: if the container-level copy ends with an empty or missing output  *)
(* file, or fails, extraction is retried exactly once, with full           *)
(* transcoding of the whole-asset file; the acquisition resolves if that   *)
(* retry succeeds and rejects only if the retry fails too.                 *)
C21_TranscodeRetryOfWholeAsset ==
    /\ Count("extractTranscode") <= 1
    /\ Has("extractTranscode") => Has("extractCopy")
    /\ pc = "transcoding" => Exists(fsTemp, "video.mp4.full.mp4")
    /\ (Has("extractCopy") /\ exitAt = "download") => Failed("extractTranscode")
    /\ Ended("extractTranscode") => exitAt # "download"

(* C22: a failure of the rendition transfer is terminal: the transfer is   *)
(* started at most once per run; withRetry runs only for the metadata      *)
(* resolution, and that aborts the run only after maxRetries+1 failed      *)
(* attempts.                                                               *)
C22_TransferNotRetried ==
    /\ Count("transfer") <= 1
    /\ rt.pc \in {"call", "sleep"} => pc = "awaitInfo"
    /\ rt.pc # "idle" => rt.maxRetries = DEFAULT_RETRY_ATTEMPTS
    /\ Has("transfer") => rt.pc \in {"idle", "returned"}
    /\ exitAt = "metadata" =>
          /\ rt.pc = "thrown"
          /\ rt.calls = DEFAULT_RETRY_ATTEMPTS + 1
          /\ ~Has("transfer")
    /\ (Has("transfer") /\ ~Has("extractCopy") /\ pc # "transferring") =>
          outcome = "exit1" /\ exitAt = "download"

C22_Witness ==
    /\ exitAt = "download"
    /\ Len(log) > 0
    /\ log[Len(log)] = "transfer"
    /\ rt.pc = "returned"
    /\ rt.calls = DEFAULT_RETRY_ATTEMPTS + 1

----------------------------------------------------------------------------
(* Reading a finished format selection.                                    *)

Selected == sel.pc = "done"
(* The formats the selection by quality is made among.                     *)
Offered == compatibleFormats(sel.formats)
OfferedWidths == {Offered[i].width : i \in 1..Len(Offered)}
HasVideoOnly == \E i \in 1..Len(sel.formats) :
                    sel.formats[i].hasVideo /\ ~sel.formats[i].hasAudio
NoVideo == \A i \in 1..Len(sel.formats) : ~sel.formats[i].hasVideo

(* C23: the Format Selector prefers video-only renditions: when the set    *)
(* holds a rendition with video and no audio, the selected rendition has   *)
(* no audio; one with audio is selected only if no video-only one exists.  *)
C23_PrefersVideoOnly ==
    (Selected /\ HasVideoOnly) =>
        /\ sel.selected # Undefined
        /\ ~sel.selected.hasAudio

C26_EmptySetFailsBeforeTransfer ==
    (Selected /\ NoVideo) =>
        /\ sel.outcome = "threw"
        /\ sel.error = "NoSuitableFormat"

----------------------------------------------------------------------------
(* Reading a finished size estimate.                                       *)

Estimated == est.pc = "done"
EstimateOf(w, f, d, m) ==
    est.width = w /\ est.fps = f /\ est.duration = d /\ est.maxSize = m

(* C27 as stated: for width=480, fps=30, duration=5, maxSize=50 the        *)
(* estimate is above the budget and the parameters become newWidth=363     *)
(* and newFps=32.                                                          *)
C27_ExampleIsAdjusted ==
    (Estimated /\ EstimateOf(480, 30, 5, 50)) =>
        est.adjusted /\ est.newWidth = 363 /\ est.newFps = 32

(* C27 amended: the parameters are adjusted exactly per the formula        *)
(* (iff the estimate exceeds maxSize; newWidth = floor(width / r),         *)
(* newFps = max(10, floor(fps / (0.7 r))), r = sqrt(estimate / maxSize));  *)
(* for width=480, fps=30, duration=5, maxSize=50 the estimate (about       *)
(* 6.9 MB) is within the budget and nothing changes; with maxSize=5 the    *)
(* parameters become newWidth=407 and newFps=36.                           *)
C27_AdjustsPerFormula ==
    Estimated =>
        LET defined == ~IsNaN(est.duration) /\ ~IsNaN(est.maxSize)
            over == defined /\
                    ~BigLeq(BigProd(<<est.fps, est.duration, est.width, est.width, 21>>),
                            BigProd(<<4096, 1024, 25, est.maxSize>>))
        IN /\ est.adjusted <=> over
           /\ ~est.adjusted => est.newWidth = est.width /\ est.newFps = est.fps
           /\ est.adjusted =>
                 /\ FitsWidth(est.newWidth, est) /\ ~FitsWidth(est.newWidth + 1, est)
                 /\ est.newFps >= 10
                 /\ est.newFps > 10 => FitsFps(est.newFps, est)
                 /\ ~FitsFps((IF est.newFps > 10 THEN est.newFps ELSE 10) + 1, est)
           /\ EstimateOf(480, 30, 5, 50) =>
                 ~est.adjusted /\ est.newWidth = 480 /\ est.newFps = 30
           /\ EstimateOf(480, 30, 5, 5) =>
                 est.adjusted /\ est.newWidth = 407 /\ est.newFps = 36

C27_Witness ==
    /\ Estimated
    /\ EstimateOf(480, 30, 5, 5)
    /\ est.adjusted
    /\ est.newWidth = 407
    /\ est.newFps = 36

----------------------------------------------------------------------------
(* The stages of run() by the operations they log.                         *)

AcquireOps == {"cacheSegGet", "copyCached", "selectFormat", "transfer",
               "extractCopy", "extractTranscode", "cacheSegPut"}
EncodeOps == {"crossfadeVideo", "crossfadeGif"} \cup TierOps
EngineOps == {"extractCopy", "extractTranscode", "speed"} \cup EncodeOps
StageOf(op) ==
    CASE op \in AcquireOps -> 1
      [] op = "speed" -> 2
      [] op = "estimate" -> 3
      [] op \in EncodeOps -> 4
      [] op = "postProcess" -> 5
      [] OTHER -> 0

(* C28: preprocessVideoSpeed never aborts the run: when its engine fails   *)
(* it resolves with the unmodified input path, and the run goes on to the  *)
(* size estimate and (unless the crossfade precondition rejects the        *)
(* request) to the encoding, which is started on that input.               *)
C28_SpeedFailureFallsBack ==
    Failed("speed") =>
        /\ exitAt # "speed"
        /\ pc # "speeding"
        /\ processedVideoPath = videoPath
        /\ pc # "afterSpeed" => Has("estimate")
        /\ (pc # "afterSpeed" /\ exitAt # "loopPrecondition") =>
              \E op \in EncodeOps : Has(op)
        /\ (usingTempVideo /\ pc \in {"tier1", "crossfadeVideo"}) =>
              Exists(fsTemp, processedVideoPath)

C28_Witness ==
    /\ Failed("speed")
    /\ processedVideoPath = videoPath
    /\ Ended("tier1")
    /\ outcome = "success"

(* C29: once postProcessGif has been invoked the run ends in success,      *)
(* whatever happens inside postProcessGif.                                 *)
C29_PostCompressionNeverFailsRun ==
    (Has("postProcess") /\ Terminated) => outcome = "success"

(* C30: the stages run in the order acquire, speed preprocessing, size     *)
(* estimate, encoding, post-compression; a stage starts only after the     *)
(* previous one has finished, and an engine invocation is started only     *)
(* after the previous one has ended or failed.                             *)
C30_StagesSequential ==
    /\ \A i, j \in 1..Len(log) :
          (i < j /\ StageOf(log[i]) > 0 /\ StageOf(log[j]) > 0) =>
              StageOf(log[i]) <= StageOf(log[j])
    /\ \A i \in 1..(Len(log) - 1) :
          log[i] \in EngineOps => log[i + 1] \in {"end", "error"}
    /\ \A i \in 1..Len(log) :
          (log[i] \in EncodeOps \cup {"postProcess"}) => Has("estimate")
    /\ Count("speed") <= 1
    /\ Count("estimate") <= 1
    /\ Has("postProcess") => \E op \in EncodeOps : Ended(op)

C30_Witness ==
    /\ outcome = "success"
    /\ Ended("extractCopy")
    /\ Ended("speed")
    /\ Ended("crossfadeGif")
    /\ Has("postProcess")

----------------------------------------------------------------------------
(* downloadVideoSegment has settled after it started a transfer.           *)

SettledAfterTransfer ==
    /\ Has("transfer")
    /\ pc \notin {"transferring", "extracting", "transcoding"}

(* C31: whenever downloadVideoSegment settles after a transfer was         *)
(* started, resolved or rejected, the whole-asset temp file has been       *)
(* deleted.                                                                *)
C31_WholeAssetDeletedOnSettle ==
    SettledAfterTransfer => ~Exists(fsTemp, "video.mp4.full.mp4")

(* C32: every temp artifact the run has created and not yet released or   *)
(* swept is in the tracked list.                                           *)
C32_ArtifactsTracked ==
    \A f \in DOMAIN fsTemp : \E i \in 1..Len(tempFiles) : tempFiles[i] = f

(* C33: whenever the transcoding retry of the extraction has been launched *)
(* (after the copy extraction failed or left an empty or missing output),  *)
(* the whole-asset file it reads still exists.                             *)
C33_WholeAssetPresentAtRetry ==
    (pc = "transcoding" /\ log[Len(log)] = "extractTranscode") =>
        Exists(fsTemp, "video.mp4.full.mp4")

----------------------------------------------------------------------------
(* The conversion promise of the non-crossfade path: resolved when run()   *)
(* reports success, rejected when the cascade hands over an error.         *)

ConversionStarted == Has("tier1")
ConversionResolved == Has("success")
ConversionRejected == rejectErr # None

(* C34: the conversion promise of the non-crossfade path is settled        *)
(* exactly once on every path through the cascade: never both resolved and *)
(* rejected, never settled while an engine invocation is running, and      *)
(* settled when the run is over.                                           *)
C34_ConversionSettledOnce ==
    ConversionStarted =>
        /\ ~(ConversionResolved /\ ConversionRejected)
        /\ Count("success") <= 1
        /\ pc \in {"tier1", "palettegen", "paletteuse", "basic", "post"} =>
              ~ConversionResolved /\ ~ConversionRejected
        /\ Terminated => ConversionResolved \/ ConversionRejected

(* C37: for every request the crossfade validation accepts                *)
(* (0 < crossfade < duration) the main segment of processCrossfade's       *)
(* filter graph, the trim [X, T-X], has strictly positive length.          *)
C37_MainSegmentNonEmpty ==
    (Has("crossfadeVideo") /\ JsGt(opts.crossfade, 0)
                           /\ JsLt(opts.crossfade, opts.duration)) =>
        \A len \in InputLengths(opts.duration, opts.crossfade) :
            MainLen(len, opts.duration, opts.crossfade) > 0

(* C38: the size estimate only constrains: when it rewrites the active    *)
(* parameters the new width and the new fps are at most the requested      *)
(* ones, and when the estimate is within the budget both are unchanged.    *)
C38_EstimateOnlyConstrains ==
    Estimated =>
        /\ est.adjusted => est.newWidth <= est.width /\ est.newFps <= est.fps
        /\ ~est.adjusted => est.newWidth = est.width /\ est.newFps = est.fps

----------------------------------------------------------------------------
(* Reading a finished encoding window and a named output path.             *)

Encoded == win.pc = "encoded"
SourceCovers == win.start + win.duration <= win.len
Requested == [from |-> win.start, to |-> win.start + win.duration]
Named == uq.pc \in {"named", "written"}

(* C35: for a remote source without crossfade the start offset is applied  *)
(* exactly once: the window handed to the encoder is the source interval   *)
(* [start, start + duration].                                              *)
C35_StartAppliedOnce ==
    (Encoded /\ win.source = "url" /\ win.crossfade = 0 /\ SourceCovers) =>
        win.window = Requested

(* C36: for a local file with crossfade the loop is synthesized from the   *)
(* source interval [start, start + duration], as in the non-crossfade path.*)
C36_CrossfadeHonoursStart ==
    (Encoded /\ win.source = "input" /\ win.crossfade > 0 /\ SourceCovers) =>
        win.window = Requested

(* C39: getUniqueFilePath returns a path that does not exist: the base     *)
(* path if it is free, otherwise the base path numbered with the smallest  *)
(* k >= 1 that is free; the run writes no file that existed before.        *)
C39_UniqueOutputPath ==
    Named =>
        /\ uq.outputPath \notin uq.existing
        /\ uq.basePath \notin uq.existing => uq.outputPath = uq.basePath
        /\ uq.basePath \in uq.existing =>
              \E k \in 1..(MaxCounter + 1) :
                 /\ uq.outputPath = Numbered(uq.basePath, k)
                 /\ \A j \in 1..(k - 1) : Numbered(uq.basePath, j) \in uq.existing
        /\ uq.written \cap uq.existing = {}

====
